---- MODULE Spec2Model ----
(***************************************************************************)
(* NepseDailyScraper (src/scraper.py): the paginated harvest loop          *)
(* scrape_nepse_daily_data, the fallback probe try_alternative_source,     *)
(* the writer save_csv and the driver run.                                 *)
(*                                                                         *)
(* Texts (cell texts, numerals) are sequences of characters, so that       *)
(* splitting, digit tests and numeric conversion are computed.  A          *)
(* character up to U+00FF is the one-character string of it; a character   *)
(* above U+00FF is the string of its code point, "U+0968" for the          *)
(* Devanagari digit two.                                                   *)
(* A float is held as the text str() gives for it (float("1234.50") is     *)
(* "1234.5", float("9999999999999999") is "1e+16"), which is what the      *)
(* dataset file shows.                                                     *)
(* A date object is <<year, month, day>>; the formatted key '%m/%d/%Y' is  *)
(* <<month, day, year>>.                                                   *)
(***************************************************************************)
EXTENDS Integers, Sequences, FiniteSets, TLC

(***************************************************************************)
(* Bounds of the model                                                     *)
(***************************************************************************)
\* number of leading pages of a finite site whose content is arbitrary
FreshPages == 2
\* largest number of rows a page hands to the row loop through the bare
\* 'tr' selector
MaxLooseRows == 2

(***************************************************************************)
(* Program constants                                                       *)
(***************************************************************************)
\* while page <= 30
PageLimit == 30
\* len(table_rows) > 5, len(rows) > 5
MinRows == 5
\* timedelta(days=365 * years)
DaysPerYear == 365

\* alternative_urls, in list order
alternative_urls == << "sharesansar", "nepsealpha" >>

(***************************************************************************)
(* Text helpers                                                            *)
(***************************************************************************)
Digits == << "0", "1", "2", "3", "4", "5", "6", "7", "8", "9" >>

\* The characters str.isdecimal() holds for, which are the digits int(),
\* float() and \d read: the ten digits of each script, in value order.
DecimalDigits ==
    << << "0", "1", "2", "3", "4", "5", "6", "7", "8", "9" >>,
       << "U+0660", "U+0661", "U+0662", "U+0663", "U+0664",
          "U+0665", "U+0666", "U+0667", "U+0668", "U+0669" >>,
       << "U+06F0", "U+06F1", "U+06F2", "U+06F3", "U+06F4",
          "U+06F5", "U+06F6", "U+06F7", "U+06F8", "U+06F9" >>,
       << "U+07C0", "U+07C1", "U+07C2", "U+07C3", "U+07C4",
          "U+07C5", "U+07C6", "U+07C7", "U+07C8", "U+07C9" >>,
       << "U+0966", "U+0967", "U+0968", "U+0969", "U+096A",
          "U+096B", "U+096C", "U+096D", "U+096E", "U+096F" >>,
       << "U+09E6", "U+09E7", "U+09E8", "U+09E9", "U+09EA",
          "U+09EB", "U+09EC", "U+09ED", "U+09EE", "U+09EF" >>,
       << "U+0A66", "U+0A67", "U+0A68", "U+0A69", "U+0A6A",
          "U+0A6B", "U+0A6C", "U+0A6D", "U+0A6E", "U+0A6F" >>,
       << "U+0AE6", "U+0AE7", "U+0AE8", "U+0AE9", "U+0AEA",
          "U+0AEB", "U+0AEC", "U+0AED", "U+0AEE", "U+0AEF" >>,
       << "U+0B66", "U+0B67", "U+0B68", "U+0B69", "U+0B6A",
          "U+0B6B", "U+0B6C", "U+0B6D", "U+0B6E", "U+0B6F" >>,
       << "U+0BE6", "U+0BE7", "U+0BE8", "U+0BE9", "U+0BEA",
          "U+0BEB", "U+0BEC", "U+0BED", "U+0BEE", "U+0BEF" >>,
       << "U+0C66", "U+0C67", "U+0C68", "U+0C69", "U+0C6A",
          "U+0C6B", "U+0C6C", "U+0C6D", "U+0C6E", "U+0C6F" >>,
       << "U+0CE6", "U+0CE7", "U+0CE8", "U+0CE9", "U+0CEA",
          "U+0CEB", "U+0CEC", "U+0CED", "U+0CEE", "U+0CEF" >>,
       << "U+0D66", "U+0D67", "U+0D68", "U+0D69", "U+0D6A",
          "U+0D6B", "U+0D6C", "U+0D6D", "U+0D6E", "U+0D6F" >>,
       << "U+0DE6", "U+0DE7", "U+0DE8", "U+0DE9", "U+0DEA",
          "U+0DEB", "U+0DEC", "U+0DED", "U+0DEE", "U+0DEF" >>,
       << "U+0E50", "U+0E51", "U+0E52", "U+0E53", "U+0E54",
          "U+0E55", "U+0E56", "U+0E57", "U+0E58", "U+0E59" >>,
       << "U+0ED0", "U+0ED1", "U+0ED2", "U+0ED3", "U+0ED4",
          "U+0ED5", "U+0ED6", "U+0ED7", "U+0ED8", "U+0ED9" >>,
       << "U+0F20", "U+0F21", "U+0F22", "U+0F23", "U+0F24",
          "U+0F25", "U+0F26", "U+0F27", "U+0F28", "U+0F29" >>,
       << "U+1040", "U+1041", "U+1042", "U+1043", "U+1044",
          "U+1045", "U+1046", "U+1047", "U+1048", "U+1049" >>,
       << "U+1090", "U+1091", "U+1092", "U+1093", "U+1094",
          "U+1095", "U+1096", "U+1097", "U+1098", "U+1099" >>,
       << "U+17E0", "U+17E1", "U+17E2", "U+17E3", "U+17E4",
          "U+17E5", "U+17E6", "U+17E7", "U+17E8", "U+17E9" >>,
       << "U+1810", "U+1811", "U+1812", "U+1813", "U+1814",
          "U+1815", "U+1816", "U+1817", "U+1818", "U+1819" >>,
       << "U+1946", "U+1947", "U+1948", "U+1949", "U+194A",
          "U+194B", "U+194C", "U+194D", "U+194E", "U+194F" >>,
       << "U+19D0", "U+19D1", "U+19D2", "U+19D3", "U+19D4",
          "U+19D5", "U+19D6", "U+19D7", "U+19D8", "U+19D9" >>,
       << "U+1A80", "U+1A81", "U+1A82", "U+1A83", "U+1A84",
          "U+1A85", "U+1A86", "U+1A87", "U+1A88", "U+1A89" >>,
       << "U+1A90", "U+1A91", "U+1A92", "U+1A93", "U+1A94",
          "U+1A95", "U+1A96", "U+1A97", "U+1A98", "U+1A99" >>,
       << "U+1B50", "U+1B51", "U+1B52", "U+1B53", "U+1B54",
          "U+1B55", "U+1B56", "U+1B57", "U+1B58", "U+1B59" >>,
       << "U+1BB0", "U+1BB1", "U+1BB2", "U+1BB3", "U+1BB4",
          "U+1BB5", "U+1BB6", "U+1BB7", "U+1BB8", "U+1BB9" >>,
       << "U+1C40", "U+1C41", "U+1C42", "U+1C43", "U+1C44",
          "U+1C45", "U+1C46", "U+1C47", "U+1C48", "U+1C49" >>,
       << "U+1C50", "U+1C51", "U+1C52", "U+1C53", "U+1C54",
          "U+1C55", "U+1C56", "U+1C57", "U+1C58", "U+1C59" >>,
       << "U+A620", "U+A621", "U+A622", "U+A623", "U+A624",
          "U+A625", "U+A626", "U+A627", "U+A628", "U+A629" >>,
       << "U+A8D0", "U+A8D1", "U+A8D2", "U+A8D3", "U+A8D4",
          "U+A8D5", "U+A8D6", "U+A8D7", "U+A8D8", "U+A8D9" >>,
       << "U+A900", "U+A901", "U+A902", "U+A903", "U+A904",
          "U+A905", "U+A906", "U+A907", "U+A908", "U+A909" >>,
       << "U+A9D0", "U+A9D1", "U+A9D2", "U+A9D3", "U+A9D4",
          "U+A9D5", "U+A9D6", "U+A9D7", "U+A9D8", "U+A9D9" >>,
       << "U+A9F0", "U+A9F1", "U+A9F2", "U+A9F3", "U+A9F4",
          "U+A9F5", "U+A9F6", "U+A9F7", "U+A9F8", "U+A9F9" >>,
       << "U+AA50", "U+AA51", "U+AA52", "U+AA53", "U+AA54",
          "U+AA55", "U+AA56", "U+AA57", "U+AA58", "U+AA59" >>,
       << "U+ABF0", "U+ABF1", "U+ABF2", "U+ABF3", "U+ABF4",
          "U+ABF5", "U+ABF6", "U+ABF7", "U+ABF8", "U+ABF9" >>,
       << "U+FF10", "U+FF11", "U+FF12", "U+FF13", "U+FF14",
          "U+FF15", "U+FF16", "U+FF17", "U+FF18", "U+FF19" >>,
       << "U+104A0", "U+104A1", "U+104A2", "U+104A3", "U+104A4",
          "U+104A5", "U+104A6", "U+104A7", "U+104A8", "U+104A9" >>,
       << "U+10D30", "U+10D31", "U+10D32", "U+10D33", "U+10D34",
          "U+10D35", "U+10D36", "U+10D37", "U+10D38", "U+10D39" >>,
       << "U+11066", "U+11067", "U+11068", "U+11069", "U+1106A",
          "U+1106B", "U+1106C", "U+1106D", "U+1106E", "U+1106F" >>,
       << "U+110F0", "U+110F1", "U+110F2", "U+110F3", "U+110F4",
          "U+110F5", "U+110F6", "U+110F7", "U+110F8", "U+110F9" >>,
       << "U+11136", "U+11137", "U+11138", "U+11139", "U+1113A",
          "U+1113B", "U+1113C", "U+1113D", "U+1113E", "U+1113F" >>,
       << "U+111D0", "U+111D1", "U+111D2", "U+111D3", "U+111D4",
          "U+111D5", "U+111D6", "U+111D7", "U+111D8", "U+111D9" >>,
       << "U+112F0", "U+112F1", "U+112F2", "U+112F3", "U+112F4",
          "U+112F5", "U+112F6", "U+112F7", "U+112F8", "U+112F9" >>,
       << "U+11450", "U+11451", "U+11452", "U+11453", "U+11454",
          "U+11455", "U+11456", "U+11457", "U+11458", "U+11459" >>,
       << "U+114D0", "U+114D1", "U+114D2", "U+114D3", "U+114D4",
          "U+114D5", "U+114D6", "U+114D7", "U+114D8", "U+114D9" >>,
       << "U+11650", "U+11651", "U+11652", "U+11653", "U+11654",
          "U+11655", "U+11656", "U+11657", "U+11658", "U+11659" >>,
       << "U+116C0", "U+116C1", "U+116C2", "U+116C3", "U+116C4",
          "U+116C5", "U+116C6", "U+116C7", "U+116C8", "U+116C9" >>,
       << "U+11730", "U+11731", "U+11732", "U+11733", "U+11734",
          "U+11735", "U+11736", "U+11737", "U+11738", "U+11739" >>,
       << "U+118E0", "U+118E1", "U+118E2", "U+118E3", "U+118E4",
          "U+118E5", "U+118E6", "U+118E7", "U+118E8", "U+118E9" >>,
       << "U+11950", "U+11951", "U+11952", "U+11953", "U+11954",
          "U+11955", "U+11956", "U+11957", "U+11958", "U+11959" >>,
       << "U+11C50", "U+11C51", "U+11C52", "U+11C53", "U+11C54",
          "U+11C55", "U+11C56", "U+11C57", "U+11C58", "U+11C59" >>,
       << "U+11D50", "U+11D51", "U+11D52", "U+11D53", "U+11D54",
          "U+11D55", "U+11D56", "U+11D57", "U+11D58", "U+11D59" >>,
       << "U+11DA0", "U+11DA1", "U+11DA2", "U+11DA3", "U+11DA4",
          "U+11DA5", "U+11DA6", "U+11DA7", "U+11DA8", "U+11DA9" >>,
       << "U+16A60", "U+16A61", "U+16A62", "U+16A63", "U+16A64",
          "U+16A65", "U+16A66", "U+16A67", "U+16A68", "U+16A69" >>,
       << "U+16AC0", "U+16AC1", "U+16AC2", "U+16AC3", "U+16AC4",
          "U+16AC5", "U+16AC6", "U+16AC7", "U+16AC8", "U+16AC9" >>,
       << "U+16B50", "U+16B51", "U+16B52", "U+16B53", "U+16B54",
          "U+16B55", "U+16B56", "U+16B57", "U+16B58", "U+16B59" >>,
       << "U+1D7CE", "U+1D7CF", "U+1D7D0", "U+1D7D1", "U+1D7D2",
          "U+1D7D3", "U+1D7D4", "U+1D7D5", "U+1D7D6", "U+1D7D7" >>,
       << "U+1D7D8", "U+1D7D9", "U+1D7DA", "U+1D7DB", "U+1D7DC",
          "U+1D7DD", "U+1D7DE", "U+1D7DF", "U+1D7E0", "U+1D7E1" >>,
       << "U+1D7E2", "U+1D7E3", "U+1D7E4", "U+1D7E5", "U+1D7E6",
          "U+1D7E7", "U+1D7E8", "U+1D7E9", "U+1D7EA", "U+1D7EB" >>,
       << "U+1D7EC", "U+1D7ED", "U+1D7EE", "U+1D7EF", "U+1D7F0",
          "U+1D7F1", "U+1D7F2", "U+1D7F3", "U+1D7F4", "U+1D7F5" >>,
       << "U+1D7F6", "U+1D7F7", "U+1D7F8", "U+1D7F9", "U+1D7FA",
          "U+1D7FB", "U+1D7FC", "U+1D7FD", "U+1D7FE", "U+1D7FF" >>,
       << "U+1E140", "U+1E141", "U+1E142", "U+1E143", "U+1E144",
          "U+1E145", "U+1E146", "U+1E147", "U+1E148", "U+1E149" >>,
       << "U+1E2F0", "U+1E2F1", "U+1E2F2", "U+1E2F3", "U+1E2F4",
          "U+1E2F5", "U+1E2F6", "U+1E2F7", "U+1E2F8", "U+1E2F9" >>,
       << "U+1E950", "U+1E951", "U+1E952", "U+1E953", "U+1E954",
          "U+1E955", "U+1E956", "U+1E957", "U+1E958", "U+1E959" >>,
       << "U+1FBF0", "U+1FBF1", "U+1FBF2", "U+1FBF3", "U+1FBF4",
          "U+1FBF5", "U+1FBF6", "U+1FBF7", "U+1FBF8", "U+1FBF9" >> >>

DecimalChars ==
    { DecimalDigits[r][k] : r \in 1..Len(DecimalDigits), k \in 1..10 }

\* The characters str.isdigit() holds for beyond the decimal digits:
\* superscripts, subscripts, circled and other dressed digits.
OtherDigitChars ==
    { "²", "³", "¹", "U+1369", "U+136A", "U+136B", "U+136C", "U+136D",
      "U+136E", "U+136F", "U+1370", "U+1371", "U+19DA", "U+2070", "U+2074",
      "U+2075", "U+2076", "U+2077", "U+2078", "U+2079", "U+2080", "U+2081",
      "U+2082", "U+2083", "U+2084", "U+2085", "U+2086", "U+2087", "U+2088",
      "U+2089", "U+2460", "U+2461", "U+2462", "U+2463", "U+2464", "U+2465",
      "U+2466", "U+2467", "U+2468", "U+2474", "U+2475", "U+2476", "U+2477",
      "U+2478", "U+2479", "U+247A", "U+247B", "U+247C", "U+2488", "U+2489",
      "U+248A", "U+248B", "U+248C", "U+248D", "U+248E", "U+248F", "U+2490",
      "U+24EA", "U+24F5", "U+24F6", "U+24F7", "U+24F8", "U+24F9", "U+24FA",
      "U+24FB", "U+24FC", "U+24FD", "U+24FF", "U+2776", "U+2777", "U+2778",
      "U+2779", "U+277A", "U+277B", "U+277C", "U+277D", "U+277E", "U+2780",
      "U+2781", "U+2782", "U+2783", "U+2784", "U+2785", "U+2786", "U+2787",
      "U+2788", "U+278A", "U+278B", "U+278C", "U+278D", "U+278E", "U+278F",
      "U+2790", "U+2791", "U+2792", "U+10A40", "U+10A41", "U+10A42",
      "U+10A43", "U+10E60", "U+10E61", "U+10E62", "U+10E63", "U+10E64",
      "U+10E65", "U+10E66", "U+10E67", "U+10E68", "U+11052", "U+11053",
      "U+11054", "U+11055", "U+11056", "U+11057", "U+11058", "U+11059",
      "U+1105A", "U+1F100", "U+1F101", "U+1F102", "U+1F103", "U+1F104",
      "U+1F105", "U+1F106", "U+1F107", "U+1F108", "U+1F109", "U+1F10A" }

\* a character int() and float() read as a digit
IsDecimalChar(c) == c \in DecimalChars

\* str.isdigit() on one character
IsDigitChar(c) == IsDecimalChar(c) \/ c \in OtherDigitChars

\* the value of a decimal digit: its place in the row of its script
DigitVal(c) ==
    CASE c = "0" -> 0 [] c = "1" -> 1 [] c = "2" -> 2 [] c = "3" -> 3
      [] c = "4" -> 4 [] c = "5" -> 5 [] c = "6" -> 6 [] c = "7" -> 7
      [] c = "8" -> 8 [] c = "9" -> 9
      [] OTHER -> (CHOOSE k \in 1..10 :
                      \E r \in 1..Len(DecimalDigits) : DecimalDigits[r][k] = c) - 1

\* str.isdigit(): non-empty and every character a digit
IsDigitText(s) == Len(s) > 0 /\ \A i \in 1..Len(s) : IsDigitChar(s[i])

\* non-empty and every character a decimal digit
IsDecimalText(s) == Len(s) > 0 /\ \A i \in 1..Len(s) : IsDecimalChar(s[i])

\* The characters str.isspace() holds for, which str.strip() removes: tab,
\* line feed, vertical tab, form feed, carriage return, the four
\* separators U+001C to U+001F, blank, next line U+0085, no-break space
\* U+00A0 and the spaces of the higher planes.
Whitespace ==
    { "\t", "\n", "", "\f", "\r", "", "", "", "", " ", "", " ",
      "U+1680", "U+2000", "U+2001", "U+2002", "U+2003", "U+2004", "U+2005",
      "U+2006", "U+2007", "U+2008", "U+2009", "U+200A", "U+2028", "U+2029",
      "U+202F", "U+205F", "U+3000" }

\* the whitespace int() and float() remove around a numeral: the same
\* without the four separators U+001C to U+001F
IntWhitespace == Whitespace \ { "", "", "", "" }

\* 'c' in s
Contains(s, c) == \E i \in 1..Len(s) : s[i] = c

\* s.replace(c, '')
Remove(s, c) == SelectSeq(s, LAMBDA ch : ch # c)

\* s without the characters of w at its start
LStripOf(s, w) ==
    IF \A i \in 1..Len(s) : s[i] \in w THEN << >>
    ELSE SubSeq(s, CHOOSE i \in 1..Len(s) :
                       /\ s[i] \notin w
                       /\ \A j \in 1..(i - 1) : s[j] \in w,
                Len(s))

\* s without the characters of w at its end
RStripOf(s, w) ==
    IF \A i \in 1..Len(s) : s[i] \in w THEN << >>
    ELSE SubSeq(s, 1, CHOOSE i \in 1..Len(s) :
                          /\ s[i] \notin w
                          /\ \A j \in (i + 1)..Len(s) : s[j] \in w)

\* s.lstrip(), s.rstrip()
LStrip(s) == LStripOf(s, Whitespace)
RStrip(s) == RStripOf(s, Whitespace)

\* s.strip(): leading and trailing whitespace removed
Strip(s) == RStrip(LStrip(s))

\* s.split(sep): the pieces between separators, empty pieces included
Split(s, sep) ==
    LET at     == { i \in 1..Len(s) : s[i] = sep }
        n      == Cardinality(at)
        \* where the k-th separator is, the two ends being separators 0
        \* and n + 1
        pos(k) == IF k = 0 THEN 0
                  ELSE IF k = n + 1 THEN Len(s) + 1
                  ELSE CHOOSE i \in at : Cardinality({ j \in at : j < i }) = k - 1
    IN  [ k \in 1..(n + 1) |-> SubSeq(s, pos(k - 1) + 1, pos(k) - 1) ]

\* the decimal digits of a natural number
RECURSIVE NatText(_)
NatText(n) ==
    IF n < 10 THEN << Digits[n + 1] >>
    ELSE NatText(n \div 10) \o << Digits[(n % 10) + 1] >>

(***************************************************************************)
(* Naturals beyond the machine integers: the sequence of the decimal digit *)
(* values, the units first and no zero at the top; zero is << >>.          *)
(***************************************************************************)
\* a without the zeros at its top
BigTrim(a) ==
    SubSeq(a, 1, CHOOSE n \in 0..Len(a) :
                     /\ n = 0 \/ a[n] # 0
                     /\ \A j \in (n + 1)..Len(a) : a[j] = 0)

\* the digit of a at 10^(i-1)
BigAt(a, i) == IF i <= Len(a) THEN a[i] ELSE 0

\* a < b: b is longer, or a has the smaller digit at the first place from
\* the top where they differ
BigLess(a, b) ==
    \/ Len(a) < Len(b)
    \/ /\ Len(a) = Len(b)
       /\ \E i \in 1..Len(a) :
             /\ a[i] < b[i]
             /\ SubSeq(a, i + 1, Len(a)) = SubSeq(b, i + 1, Len(a))

\* The carry into place i of the sum of the places t: what the nearest
\* place below that does not pass a carry on sends up.  A place passes a
\* carry on when it holds pass, 9 in a sum and 0 in a difference.
BigCarryInto(t, pass, i) ==
    IF \A j \in 1..(i - 1) : t[j] = pass THEN 0
    ELSE t[i - (CHOOSE d \in 1..(i - 1) :
                    /\ t[i - d] # pass
                    /\ \A l \in 1..(d - 1) : t[i - l] = pass)] \div 10

\* the natural whose digit at 10^(i-1) is t[i], from -9 to 18, with the
\* carries done
BigCarry(t, pass) ==
    BigTrim([ i \in 1..(Len(t) + 1) |->
                (BigAt(t, i) + BigCarryInto(t, pass, i)) % 10 ] \o << >>)

\* a + b
BigAdd(a, b) ==
    BigCarry([ i \in 1..(IF Len(a) < Len(b) THEN Len(b) ELSE Len(a)) |->
                 BigAt(a, i) + BigAt(b, i) ] \o << >>, 9)

\* a - b for b <= a
BigSub(a, b) == BigCarry([ i \in 1..Len(a) |-> a[i] - BigAt(b, i) ] \o << >>, 0)

\* a * 2
BigDouble(a) == BigAdd(a, a)

\* a \div 2
BigHalf(a) ==
    BigTrim([ i \in 1..Len(a) |-> (a[i] + 10 * (BigAt(a, i + 1) % 2)) \div 2 ]
                \o << >>)

\* a * 10^n for a > 0
BigShift10(a, n) == [ i \in 1..n |-> 0 ] \o a

\* a * 2^n, by halves of n
RECURSIVE BigShl(_, _)
BigShl(a, n) ==
    IF n = 0 \/ a = << >> THEN a
    ELSE IF n = 1 THEN BigDouble(a)
    ELSE BigShl(BigShl(a, n \div 2), n - n \div 2)

\* a * 5^n, by halves of n
RECURSIVE BigMulPow5(_, _)
BigMulPow5(a, n) ==
    IF n = 0 \/ a = << >> THEN a
    ELSE IF n = 1 THEN BigHalf(BigShift10(a, 1))
    ELSE BigMulPow5(BigMulPow5(a, n \div 2), n - n \div 2)

BigOdd(a) == a # << >> /\ a[1] % 2 = 1


\* the digit values of a text of decimal digits as a natural
BigOfText(s) ==
    BigTrim([ i \in 1..Len(s) |-> DigitVal(s[Len(s) + 1 - i]) ] \o << >>)

\* the decimal digits of a natural above zero, units last
TextOfBig(a) == [ i \in 1..Len(a) |-> Digits[a[Len(a) + 1 - i] + 1] ] \o << >>

\* how many zeros a natural above zero ends in
BigLowZeros(a) ==
    CHOOSE n \in 0..(Len(a) - 1) :
        /\ a[n + 1] # 0
        /\ \A j \in 1..n : a[j] = 0

\* a natural of few digits as a machine integer
RECURSIVE NatOfBig(_)
NatOfBig(a) == IF a = << >> THEN 0 ELSE a[1] + 10 * NatOfBig(Tail(a))

(***************************************************************************)
(* int                                                                     *)
(***************************************************************************)
\* the digits int() converts before it raises ValueError:
\* sys.get_int_max_str_digits() as the interpreter starts
IntMaxStrDigits == 4300
\* a C int, which datetime() takes its arguments as, is below 2^CIntBits
\* in magnitude, -2^CIntBits included
CIntBits == 31

\* int(text) removes the whitespace around the numeral
IntStrip(s) == RStripOf(LStripOf(s, IntWhitespace), IntWhitespace)

\* int(text): what is left of the text without the whitespace around it
\* once one sign is gone
IntBody(t) == IF t # << >> /\ t[1] \in { "+", "-" } THEN Tail(t) ELSE t

\* int(text) does not raise ValueError: decimal digits, no more than
\* IntMaxStrDigits, with single underscores between digits allowed
IntOk(s) ==
    LET b == IntBody(IntStrip(s))
    IN  /\ b # << >>
        /\ IsDecimalChar(b[1])
        /\ IsDecimalChar(b[Len(b)])
        /\ \A i \in 1..Len(b) : IsDecimalChar(b[i]) \/ b[i] = "_"
        /\ \A i \in 1..(Len(b) - 1) : ~ (b[i] = "_" /\ b[i + 1] = "_")
        /\ Len(Remove(b, "_")) <= IntMaxStrDigits

\* for a text with IntOk: int(text) < 0 or the text is a negative zero
IntNegative(s) == IntStrip(s)[1] = "-"

\* abs(int(text)) for a text with IntOk
IntMagnitude(s) == BigOfText(Remove(IntBody(IntStrip(s)), "_"))

\* int(text) is a C int: passing it to datetime() does not raise
\* OverflowError
IntInC(s) ==
    \/ BigLess(IntMagnitude(s), BigShl(<< 1 >>, CIntBits))
    \/ IntNegative(s) /\ IntMagnitude(s) = BigShl(<< 1 >>, CIntBits)

\* abs(int(text)) <= 9999, the largest argument datetime() takes
IntSmall(s) == Len(IntMagnitude(s)) <= 4

\* int(text) for a text with IntOk and IntSmall
IntOf(s) ==
    IF IntNegative(s) THEN 0 - NatOfBig(IntMagnitude(s))
    ELSE NatOfBig(IntMagnitude(s))

(***************************************************************************)
(* datetime                                                                *)
(***************************************************************************)
IsLeap(y) == y % 4 = 0 /\ (y % 100 # 0 \/ y % 400 = 0)

DaysInMonth(y, m) ==
    IF m = 2 THEN (IF IsLeap(y) THEN 29 ELSE 28)
    ELSE IF m \in {4, 6, 9, 11} THEN 30 ELSE 31

\* datetime(year, month, day) raises ValueError outside these ranges
ValidDate(y, m, d) ==
    /\ y >= 1 /\ y <= 9999
    /\ m >= 1 /\ m <= 12
    /\ d >= 1 /\ d <= DaysInMonth(y, m)

DaysBeforeYear(y) ==
    LET p == y - 1 IN (p * 365) + (p \div 4) - (p \div 100) + (p \div 400)

\* the days of the year before the first of month m
DaysBeforeMonth(y, m) ==
    << 0, 31, 59, 90, 120, 151, 181, 212, 243, 273, 304, 334 >>[m]
        + (IF m > 2 /\ IsLeap(y) THEN 1 ELSE 0)

\* proleptic Gregorian ordinal of a date, 0001-01-01 being day 1
Ordinal(dt) == DaysBeforeYear(dt[1]) + DaysBeforeMonth(dt[1], dt[2]) + dt[3]

\* datetime.weekday(): Monday is 0
Weekday(dt) == (Ordinal(dt) + 6) % 7

\* record_date.strftime('%m/%d/%Y')
strftime(dt) == << dt[2], dt[3], dt[1] >>

\* parsing a '%m/%d/%Y' key back into a date (strptime, pd.to_datetime)
strptime(key) == << key[3], key[1], key[2] >>

\* strptime(text, '%m/%d/%Y') does not raise ValueError: %Y reads four
\* digits, and strftime writes a year below 1000 with fewer
strptimeOk(key) == key[3] >= 1000 /\ ValidDate(key[3], key[1], key[2])

(***************************************************************************)
(* float: IEEE 754 binary64                                                *)
(***************************************************************************)
\* the bits of a float
FloatBits == 53
\* the unit of the smallest floats is 2^FloatMinExp
FloatMinExp == -1074
\* 2^FloatMaxExp is beyond the floats
FloatMaxExp == 1024

\* a / b * 2^s as a fraction << numerator, denominator >>
FloatScale(a, b, s) ==
    IF s >= 0 THEN << BigShl(a, s), b >> ELSE << a, BigShl(b, 0 - s) >>

\* for a fraction f of 1 at least: << numerator, denominator, x >> of
\* f / 2^x with 1 <= f / 2^x < 2
RECURSIVE FloatHalve(_, _, _)
FloatHalve(a, b, x) ==
    LET b2 == BigDouble(b)
    IN  IF BigLess(a, b2) THEN << a, b, x >> ELSE FloatHalve(a, b2, x + 1)

\* a power of two that a / b is not below, a / b being between 10^(d - 1)
\* and 10^(d + 1) for the difference d of the lengths
FloatLog2Below(a, b) == ((Len(a) - Len(b) - 1) * 3321929) \div 1000000 - 1

\* a / b > 0 as << a', b', x >> with a / b = a' / b' * 2^x and
\* 1 <= a' / b' < 2
FloatNormalize(a, b) ==
    FloatHalve(FloatScale(a, b, 0 - FloatLog2Below(a, b))[1],
               FloatScale(a, b, 0 - FloatLog2Below(a, b))[2],
               FloatLog2Below(a, b))

\* one more bit of a quotient: rm is << rest, bits so far >>, the rest
\* being below the divisor d and the bits above zero
FloatBit(rm, d) ==
    LET r2 == BigDouble(rm[1])
        m2 == BigDouble(rm[2])
    IN  IF BigLess(r2, d) THEN << r2, m2 >>
        ELSE << BigSub(r2, d), [ m2 EXCEPT ![1] = @ + 1 ] >>

\* n more bits, by halves of n
RECURSIVE FloatDivBits(_, _, _)
FloatDivBits(rm, d, n) ==
    IF n = 0 \/ rm = << >> THEN rm
    ELSE IF n = 1 THEN FloatBit(rm, d)
    ELSE FloatDivBits(FloatDivBits(rm, d, n \div 2), d, n - n \div 2)

\* round half to even: the bits rm[2] of a quotient go up when the rest
\* rm[1] is more than half of the divisor d, or half of it under odd bits
FloatRound(rm, d) ==
    LET r2 == BigDouble(rm[1])
    IN  IF BigLess(d, r2) \/ (r2 = d /\ BigOdd(rm[2]))
        THEN BigAdd(rm[2], << 1 >>)
        ELSE rm[2]

\* a / b with 1 <= a / b < 2 in p bits, p >= 1, rounded half to even
FloatMantissa(a, b, p) ==
    FloatRound(FloatDivBits(<< BigSub(a, b), << 1 >> >>, b, p - 1), b)

\* m * 2^e with one bit of m moved to e when m has a bit too many; << >>
\* when it is beyond the floats
FloatNormal(m, e) ==
    IF m # BigShl(<< 1 >>, FloatBits) THEN << m, e >>
    ELSE IF e + 1 + FloatBits > FloatMaxExp THEN << >>
    ELSE << BigShl(<< 1 >>, FloatBits - 1), e + 1 >>

\* the float nearest to a / b * 2^x with 1 <= a / b < 2: it has FloatBits
\* bits, fewer when its unit would be below 2^FloatMinExp
FloatAt(a, b, x) ==
    IF x >= FloatMaxExp THEN << >>
    ELSE IF x - (FloatBits - 1) >= FloatMinExp
    THEN FloatNormal(FloatMantissa(a, b, FloatBits), x - (FloatBits - 1))
    ELSE IF x >= FloatMinExp
    THEN << FloatMantissa(a, b, x - FloatMinExp + 1), FloatMinExp >>
    ELSE IF x = FloatMinExp - 1 /\ a # b THEN << << 1 >>, FloatMinExp >>
    ELSE << << >>, FloatMinExp >>

\* The float nearest to a / b (a, b > 0), ties to even: << m, e >> for
\* m * 2^e, m being << >> for 0.0; << >> for inf
NearestFloat(a, b) ==
    LET n == FloatNormalize(a, b) IN FloatAt(n[1], n[2], n[3])

\* a with the digits below 10^q set to zero
BigFloor10(a, q) == [ i \in 1..Len(a) |-> IF i <= q THEN 0 ELSE a[i] ] \o << >>

\* c is in the rounding interval from lo to hi, whose ends belong to it
\* when closed holds
FloatReads(c, lo, hi, closed) ==
    IF closed THEN ~ BigLess(c, lo) /\ ~ BigLess(hi, c)
    ELSE BigLess(lo, c) /\ BigLess(c, hi)

\* of the two numerals down <= v <= up that end at 10^q, the nearest to v
\* that reads back as the float, down on a tie when even holds; << >> when
\* neither does
ShortestOf(v, down, up, lo, hi, closed, even) ==
    IF FloatReads(down, lo, hi, closed) /\ FloatReads(up, lo, hi, closed)
    THEN IF BigLess(BigSub(v, down), BigSub(up, v)) THEN down
         ELSE IF BigLess(BigSub(up, v), BigSub(v, down)) THEN up
         ELSE IF even THEN down ELSE up
    ELSE IF FloatReads(down, lo, hi, closed) THEN down
    ELSE IF FloatReads(up, lo, hi, closed) THEN up
    ELSE << >>

ShortestAt(v, lo, hi, closed, q) ==
    IF q <= 0 THEN v
    ELSE ShortestOf(v, BigFloor10(v, q),
                    BigAdd(BigFloor10(v, q), BigShift10(<< 1 >>, q)),
                    lo, hi, closed, v[q + 1] % 2 = 0)

\* The numeral of the fewest digits that reads back as the float v, the
\* nearest to v of that length.  When a numeral of k digits reads back,
\* one of k + 1 digits does.
Shortest(v, lo, hi, closed) ==
    ShortestAt(v, lo, hi, closed,
               Len(v) - (CHOOSE k \in 1..Len(v) :
                    /\ ShortestAt(v, lo, hi, closed, Len(v) - k) # << >>
                    /\ k = 1 \/ ShortestAt(v, lo, hi, closed, Len(v) - k + 1) = << >>))

\* v with half of the gap to the next float above and below, the gap below
\* being half as wide under a power of two: the rounding interval of v
ShortestIn(v, unit, narrow, closed) ==
    Shortest(v, BigSub(v, IF narrow THEN unit ELSE BigDouble(unit)),
             BigAdd(v, BigDouble(unit)), closed)

\* The shortest numeral that reads back as the float m * 2^e, as << c, g >>
\* for c / 10^g.  The float and its interval are counted in quarters of
\* 2^e, which are 5^g / 10^g for g = 2 - e > 0.
ShortestNumeral(m, e) ==
    IF e - 2 < 0
    THEN << ShortestIn(BigMulPow5(BigShl(m, 2), 2 - e), BigMulPow5(<< 1 >>, 2 - e),
                       m = BigShl(<< 1 >>, FloatBits - 1) /\ e > FloatMinExp,
                       ~ BigOdd(m)),
            2 - e >>
    ELSE << ShortestIn(BigShl(m, e), BigShl(<< 1 >>, e - 2),
                       m = BigShl(<< 1 >>, FloatBits - 1) /\ e > FloatMinExp,
                       ~ BigOdd(m)),
            0 >>

\* float(text) of a text of digits and dots does not raise ValueError: the
\* digits are decimal digits and there is one dot at most
FloatOk(s) == IsDecimalText(Remove(s, ".")) /\ Len(Split(s, ".")) <= 2

\* the digits before e in repr: one digit, then a point if more follow
Mantissa(digits) ==
    IF Len(digits) = 1 THEN digits ELSE << Head(digits), "." >> \o Tail(digits)

\* the two digits at least that repr writes for an exponent
Pad2(n) == IF n < 10 THEN << "0" >> \o NatText(n) ELSE NatText(n)

Zeros(n) == [ i \in 1..n |-> "0" ] \o << >>

\* the float 0.0, the one finite float of FloatOf that is not above zero
Zero == << "0", ".", "0" >>

\* the float inf
Inf == << "i", "n", "f" >>

\* repr of the float whose shortest numeral is 0.digits * 10^decpt:
\* positional from 0.0001 to below 1e16, with an exponent of two digits at
\* least elsewhere
ReprText(digits, decpt) ==
    IF decpt > 16
    THEN Mantissa(digits) \o << "e", "+" >> \o Pad2(decpt - 1)
    ELSE IF decpt < -3
    THEN Mantissa(digits) \o << "e", "-" >> \o Pad2(1 - decpt)
    ELSE IF decpt <= 0 THEN << "0", "." >> \o Zeros(0 - decpt) \o digits
    ELSE IF decpt >= Len(digits)
    THEN digits \o Zeros(decpt - Len(digits)) \o << ".", "0" >>
    ELSE SubSeq(digits, 1, decpt) \o << "." >>
             \o SubSeq(digits, decpt + 1, Len(digits))

\* str() of the float m * 2^e, whose shortest numeral is c / 10^g
FloatText(m, e) ==
    LET sn == ShortestNumeral(m, e)
        c  == sn[1]
    IN  ReprText(TextOfBig(SubSeq(c, BigLowZeros(c) + 1, Len(c))),
                 Len(c) - sn[2])

\* str() of the float nearest to a / b
FloatOfRatio(a, b) ==
    LET fl == NearestFloat(a, b)
    IN  IF fl = << >> THEN Inf
        ELSE IF fl[1] = << >> THEN Zero
        ELSE FloatText(fl[1], fl[2])

\* float(text) for a text with FloatOk.  A float is kept as the text str()
\* gives for it: the shortest numeral that reads back as the same float,
\* with a point and one fraction digit at least, and with an exponent
\* below 0.0001 and from 1e16 on.  The text is whole.frac, a the digits of
\* both as one natural: 10^309 and more is inf, less than 10^-324 is 0.0.
FloatOf(s) ==
    LET parts == Split(s, ".")
        whole == BigOfText(parts[1])
        frac  == IF Len(parts) = 2 THEN parts[2] ELSE << >>
        a     == BigOfText(parts[1] \o frac)
    IN  IF a = << >> THEN Zero
        ELSE IF Len(whole) > 309 THEN Inf
        ELSE IF Len(frac) - Len(a) >= 324 THEN Zero
        ELSE FloatOfRatio(a, BigShift10(<< 1 >>, Len(frac)))

(***************************************************************************)
(* get_daily_volume_estimate: what fixes estimated_volume = base_volume *  *)
(* price_factor * day_factor * variation.  price_factor is                 *)
(* (close_price / 2500) * 0.3 + 0.85 of the close_price kept in the        *)
(* record, day_factor is in tenths, variation in hundredths.               *)
(***************************************************************************)
\* str(close_price).replace('.', '')[-2:]
LastTwo(close_price) ==
    SubSeq(Remove(close_price, "."), Len(Remove(close_price, ".")) - 1,
           Len(Remove(close_price, ".")))

\* get_daily_volume_estimate raises ValueError: int() refuses the last two
\* characters, which are "nf" for inf
VolumeRaises(close_price) == ~ IntOk(LastTwo(close_price))

\* for a close_price without VolumeRaises
get_daily_volume_estimate(close_price, date_str) ==
    LET \* 1.0 when strptime raises
        day_factor == IF ~ strptimeOk(date_str) THEN 10
                      ELSE IF Weekday(strptime(date_str)) = 0 THEN 12
                      ELSE IF Weekday(strptime(date_str)) = 4 THEN 9
                      ELSE 10
    IN  [ close_price |-> close_price,
          day_factor  |-> day_factor,
          variation   |-> 70 + (IntOf(LastTwo(close_price)) % 60) ]

(***************************************************************************)
(* Inputs: the clock, the pages the primary source serves, the rows        *)
(***************************************************************************)
\* datetime.now() as the harvest begins: the date of the run, and the
\* seconds since midnight
NowDate == << 2024, 3, 1 >>
TimesOfDay == {0, 43200}

\* the day after a day
NextDay(dt) ==
    IF dt[3] < DaysInMonth(dt[1], dt[2]) THEN << dt[1], dt[2], dt[3] + 1 >>
    ELSE IF dt[2] < 12 THEN << dt[1], dt[2] + 1, 1 >>
    ELSE << dt[1] + 1, 1, 1 >>

\* datetime.now() as try_alternative_source reads it again for the date of
\* its record: the day of the run or, midnight having passed since the
\* harvest began, the day after
ClockDays == { NowDate, NextDay(NowDate) }

\* run(years): the default 2, one other value, and one value that takes the
\* cutoff before the first day of the calendar
YearsMenu == {1, 2, 2025}

\* cell texts: TxtA is the day before the two-year cutoff, TxtC the day of
\* the one-year cutoff, TxtD the day before the run, TxtDLoose and TxtDDeva
\* the same day in spellings that int() reads, TxtDSep the same day with a
\* separator U+001E that strip() removes and int() refuses, TxtOld a day
\* whose year strftime writes with three digits, TxtFar a day whose year
\* is no C int.  Txt1234, Txt1234Deva and Txt1234Long are spellings of
\* 1234.5, the last by rounding; TxtHuge is 310 nines, which float() reads
\* as inf.  TxtDLoose holds a vertical tab U+000B before the month and
\* ends in U+0085, Txt1234 ends in U+001C.
TxtA      == << "2","0","2","2","/","0","3","/","0","1" >>
TxtC      == << "2","0","2","3","/","0","3","/","0","2" >>
TxtD      == << "2","0","2","4","/","0","2","/","2","9" >>
TxtDLoose == << "\n","U+3000","2","_","0","2","4","/","","0","2","/","+","2","9","" >>
TxtDDeva  == << "U+0968","U+0966","U+0968","U+096A","/","U+0966","U+0968","/",
                "U+0968","U+096F" >>
TxtDSep   == << "2","0","2","4","/","","0","2","/","2","9" >>
TxtFar    == << "9","9","9","9","9","9","9","9","9","9","9","/","0","2","/","2","9" >>
TxtOld    == << "9","5","0","/","0","2","/","0","2" >>
TxtFeb30  == << "2","0","2","3","/","0","2","/","3","0" >>
TxtDash   == << "2","0","2","4","-","0","2","-","2","9" >>
TxtDay    == << "2","0","2","4","/","0","2","/","x" >>
TxtRank   == << "1" >>
Txt1234   == << "\n","\t"," ","1",",","2","3","4",".","5","" >>
Txt1234Deva == << "U+0967",",","U+0968","U+0969","U+096A",".","U+096B" >>
Txt1234Long == << "1","2","3","4",".","5","0","0","0","0","0","0","0","0","0","0",
                  "0","0","0","0","0","0","1" >>
TxtHuge   == [ i \in 1..310 |-> "9" ] \o << >>
TxtZero   == << "0" >>
TxtAbc    == << "a","b","c" >>
TxtSquare == << "1","²" >>
TxtDots   == << "1",".","2",".","3" >>
TxtEmpty  == << >>

\* a row is the sequence of the texts of its td/th cells
RowMenu ==
    { << TxtRank, TxtD, Txt1234 >>,
      << TxtRank, TxtD, TxtZero >>,
      << TxtRank, TxtC, Txt1234 >>,
      << TxtRank, TxtA, Txt1234 >>,
      << TxtRank, TxtD >>,
      << TxtRank, TxtD, TxtAbc >>,
      << TxtRank, TxtA, TxtAbc >>,
      << TxtRank, TxtD, TxtDots >>,
      << TxtRank, TxtD, TxtSquare >>,
      << TxtRank, TxtDLoose, Txt1234 >>,
      << TxtRank, TxtDDeva, Txt1234Deva >>,
      << TxtRank, TxtD, Txt1234Long >>,
      << TxtRank, TxtD, TxtHuge >>,
      << TxtRank, TxtDSep, Txt1234 >>,
      << TxtRank, TxtFar, Txt1234 >>,
      << TxtRank, TxtD, TxtEmpty >>,
      << TxtRank, TxtEmpty, Txt1234 >>,
      << TxtRank, TxtFeb30, Txt1234 >>,
      << TxtRank, TxtDash, Txt1234 >>,
      << TxtRank, TxtDay, Txt1234 >> }

(***************************************************************************)
(* The parsed page (soup): for each selector of the cascade what it        *)
(* matches.  tables, dot_table, class_table: the number of tr elements     *)
(* inside each matched element, in document order; tbody_tr, tr: the       *)
(* number of matched rows; next: some anchor text matches next or '>'.     *)
(***************************************************************************)
Soup(tables, dot_table, class_table, tbody_tr, tr, next) ==
    [ tables |-> tables, dot_table |-> dot_table, class_table |-> class_table,
      tbody_tr |-> tbody_tr, tr |-> tr, next |-> next ]

SoupMenu ==
    UNION { { Soup(<< >>, << >>, << >>, 0, 0, n),
              Soup(<< MinRows + 2 >>, << >>, << >>, 0, MinRows + 2, n),
              Soup(<< 1, MinRows + 2 >>, << >>, << >>, 0, MinRows + 3, n),
              Soup(<< >>, << >>, << MinRows + 2 >>, 0, MinRows + 2, n),
              Soup(<< MinRows + 1 >>, << MinRows + 1 >>, << MinRows + 1 >>,
                   MinRows + 1, MinRows + 1, n) }
            \cup { Soup(<< k >>, << >>, << >>, 0, k, n) : k \in 1..MaxLooseRows }
            \cup { Soup(<< >>, << >>, << >>, k, k, n) : k \in 1..MaxLooseRows }
          : n \in BOOLEAN }

\* The primary source is "paged" (it has FreshPages pages of any content and
\* answers a request for a later page with an error status), "same_page" (it
\* ignores the page parameter and answers every request with the same
\* one-row page that shows a next link) or "old_page" (the same, its one row
\* being dated in the year 950).
SiteMenu == { "paged", "same_page", "old_page" }
SamePageSoup == Soup(<< 1 >>, << >>, << >>, 0, 1, TRUE)
SamePageRow  == << TxtRank, TxtD, Txt1234 >>
OldPageRow   == << TxtRank, TxtOld, Txt1234 >>

\* the runs: run(years) against a primary source.  The source of the year
\* 950 is read with the largest years that leaves the cutoff in the
\* calendar, so that its row is inside the window.  -7982 is the years
\* nearest to zero that take the cutoff past the last day of the calendar.
RunMenu ==
    (YearsMenu \X { "paged", "same_page" })
        \cup { << 2024, "old_page" >>, << -7982, "same_page" >> }

ServedSoups(s, p) ==
    IF s \in { "same_page", "old_page" } THEN { SamePageSoup }
    ELSE IF p <= FreshPages THEN SoupMenu ELSE { }

ServedRows(s) ==
    IF s = "same_page" THEN { SamePageRow }
    ELSE IF s = "old_page" THEN { OldPageRow }
    ELSE RowMenu

AllRows == UNION { ServedRows(s) : s \in SiteMenu }

\* what one alternate source answers: a network failure, or a status with
\* the visible text reduced to the two keyword tests and the numerals that
\* re.findall returns
AltAnswer(failed, status, nepse, index, numbers) ==
    [ failed |-> failed, status |-> status, nepse |-> nepse, index |-> index,
      numbers |-> numbers ]

Txt2481 == << "2","4","8","1",".","3","5","6","7" >>
Txt7dot == << "7","." >>

AltMenu ==
    { AltAnswer(TRUE, 0, FALSE, FALSE, << >>),
      AltAnswer(FALSE, 404, TRUE, TRUE, << Txt2481 >>),
      AltAnswer(FALSE, 200, TRUE, FALSE, << Txt2481 >>),
      AltAnswer(FALSE, 200, FALSE, TRUE, << Txt2481 >>),
      AltAnswer(FALSE, 200, TRUE, TRUE, << >>),
      AltAnswer(FALSE, 200, TRUE, TRUE, << Txt2481, Txt7dot >>),
      AltAnswer(FALSE, 200, TRUE, TRUE, << Txt7dot, Txt2481 >>),
      AltAnswer(FALSE, 200, TRUE, TRUE, << TxtZero >>),
      AltAnswer(FALSE, 200, TRUE, TRUE, << TxtHuge, Txt2481 >>) }

\* how DataFrame.to_csv ends: written in full, an error before the file is
\* opened, or an error after some of the rows went out
WriteMenu == { "ok", "open_error", "write_error" }

\* element.find_all('tr')[1:] of the first matched element with more than
\* MinRows rows after the header; 0 when there is none
RECURSIVE TableRows(_)
TableRows(elements) ==
    IF elements = << >> THEN 0
    ELSE IF Head(elements) - 1 > MinRows THEN Head(elements) - 1
    ELSE TableRows(Tail(elements))

\* the selector cascade: len(rows) when the for loop over selectors ends
SelectRows(soup) ==
    IF TableRows(soup.tables) > 0 THEN TableRows(soup.tables)
    ELSE IF TableRows(soup.dot_table) > 0 THEN TableRows(soup.dot_table)
    ELSE IF TableRows(soup.class_table) > 0 THEN TableRows(soup.class_table)
    ELSE IF soup.tbody_tr > MinRows THEN soup.tbody_tr
    ELSE IF soup.tr > 0 THEN soup.tr
    ELSE soup.tbody_tr

(***************************************************************************)
(* One row of the row loop                                                 *)
(***************************************************************************)
date_cell(row)  == IF Len(row) > 1 THEN Strip(row[2]) ELSE << >>
price_cell(row) == IF Len(row) > 2 THEN Strip(row[3]) ELSE << >>

\* int(parts[0]), int(parts[1]), int(parts[2]) do not raise ValueError
DatePartsOk(p) == IntOk(p[1]) /\ IntOk(p[2]) /\ IntOk(p[3])

\* datetime(year, month, day) does not raise OverflowError: each argument
\* is a C int
DatePartsInC(p) == IntInC(p[1]) /\ IntInC(p[2]) /\ IntInC(p[3])

\* none of year, month, day is above 9999 in magnitude; one that is lies
\* outside the ranges of ValidDate
DatePartsSmall(p) == IntSmall(p[1]) /\ IntSmall(p[2]) /\ IntSmall(p[3])

\* year, month, day = int(parts[0]), int(parts[1]), int(parts[2])
DateParts(p) == << IntOf(p[1]), IntOf(p[2]), IntOf(p[3]) >>

\* clean_price = price_cell.replace(',', '').strip()
clean_price(row) == Strip(Remove(price_cell(row), ","))

\* timedelta(days=...) holds this many days at most, either way
TimedeltaMaxDays == 999999999

\* timedelta(days=365 * years) does not raise OverflowError
TimedeltaOk(yrs) ==
    /\ yrs >= 0 - (TimedeltaMaxDays \div DaysPerYear)
    /\ yrs <= TimedeltaMaxDays \div DaysPerYear

\* datetime.max.toordinal()
MaxOrdinal == Ordinal(<< 9999, 12, 31 >>)

\* datetime.now() - timedelta(days=365 * years) does not raise
\* OverflowError: the day is from 0001-01-01 to 9999-12-31
TargetDateOk(yrs) ==
    /\ TimedeltaOk(yrs)
    /\ Ordinal(NowDate) - DaysPerYear * yrs >= 1
    /\ Ordinal(NowDate) - DaysPerYear * yrs <= MaxOrdinal

\* target_date = datetime.now() - timedelta(days=365 * years)
TargetDate(now_tod, yrs) ==
    [ ord |-> Ordinal(NowDate) - DaysPerYear * yrs, tod |-> now_tod ]

\* variant: the comparison is one day late
BeforeTargetOneDayLate(day, target) ==
    \/ Ordinal(day) + 1 < target.ord
    \/ Ordinal(day) + 1 = target.ord /\ 0 < target.tod

\* record_date < target_date, record_date being midnight of its day
BeforeTarget(day, target) ==
    \/ Ordinal(day) < target.ord
    \/ Ordinal(day) = target.ord /\ 0 < target.tod

\* the record appended to page_records: formatted_date and clean_price of an
\* accepted row
RowRecord(date, price) ==
    LET closing_price == FloatOf(price)
    IN  [ Date   |-> date,
          Close  |-> closing_price,
          Volume |-> get_daily_volume_estimate(closing_price, date) ]

\* what the body of the row loop reads in a row, seen_dates and target_date
\* left aside.  skip: the test that drops the row ("short", "empty",
\* "shape"), "value_error" for a ValueError of int() or datetime(),
\* "overflow_error" for an OverflowError of datetime(), "none" when
\* record_date exists.  price: "bad_price" when the test of the price text
\* fails, "float_error" for a ValueError of float(), "volume_error" for a
\* ValueError of get_daily_volume_estimate, "accept" with the
\* record to append.
RowParse(row) ==
    IF Len(row) < 3 THEN [ skip |-> "short" ]
    ELSE LET date == date_cell(row) IN
    IF date = << >> \/ price_cell(row) = << >> THEN [ skip |-> "empty" ]
    ELSE LET parts == Split(date, "/") IN
    IF ~ (Contains(date, "/") /\ Len(parts) = 3) THEN [ skip |-> "shape" ]
    ELSE IF ~ DatePartsOk(parts) THEN [ skip |-> "value_error" ]
    ELSE IF ~ DatePartsInC(parts) THEN [ skip |-> "overflow_error" ]
    ELSE IF ~ DatePartsSmall(parts) THEN [ skip |-> "value_error" ]
    ELSE LET record_date == DateParts(parts) IN
    IF ~ ValidDate(record_date[1], record_date[2], record_date[3])
    THEN [ skip |-> "value_error" ]
    ELSE LET formatted_date == strftime(record_date)
             price == clean_price(row)
             how   == IF ~ (price # << >> /\ IsDigitText(Remove(price, ".")))
                      THEN "bad_price"
                      ELSE IF ~ FloatOk(price) THEN "float_error"
                      ELSE IF VolumeRaises(FloatOf(price)) THEN "volume_error"
                      ELSE "accept"
         IN  [ skip           |-> "none",
               record_date    |-> record_date,
               formatted_date |-> formatted_date,
               price          |-> how,
               record         |-> IF how = "accept"
                                  THEN RowRecord(formatted_date, price)
                                  ELSE << >> ]

\* the rows the primary sources serve, each with what is read in it
RowParses == { << row, RowParse(row) >> : row \in AllRows }

\* what is read in a row; for a served row it is looked up
ParseOf(row) ==
    IF row \in AllRows
    THEN (CHOOSE p \in RowParses : p[1] = row)[2]
    ELSE RowParse(row)

\* what the body of the row loop does with what it read in a row: the skip
\* of RowParse, "seen", "stop", or the price of RowParse.  The price is read
\* after the seen test and the boundary test.
VerdictOf(read, seen, target) ==
    IF read.skip # "none" THEN read.skip
    ELSE IF read.formatted_date \in seen THEN "seen"
    ELSE IF BeforeTarget(read.record_date, target) THEN "stop"
    ELSE read.price

\* what the body of the row loop does with a row
RowVerdict(row, seen, target) == VerdictOf(ParseOf(row), seen, target)

(***************************************************************************)
(* save_csv: the frame operations                                          *)
(***************************************************************************)
\* variant: keep='last', the later row replaces the kept one
RECURSIVE drop_duplicates_keep_last(_, _)
drop_duplicates_keep_last(df, kept) ==
    IF df = << >> THEN kept
    ELSE IF \E i \in 1..Len(kept) : kept[i].Date = Head(df).Date
         THEN drop_duplicates_keep_last(Tail(df),
                  [ i \in 1..Len(kept) |->
                      IF kept[i].Date = Head(df).Date THEN Head(df) ELSE kept[i] ])
         ELSE drop_duplicates_keep_last(Tail(df), Append(kept, Head(df)))

\* df.drop_duplicates(subset=['Date'], keep='first')
RECURSIVE drop_duplicates(_, _)
drop_duplicates(df, kept) ==
    IF df = << >> THEN kept
    ELSE IF \E i \in 1..Len(kept) : kept[i].Date = Head(df).Date
         THEN drop_duplicates(Tail(df), kept)
         ELSE drop_duplicates(Tail(df), Append(kept, Head(df)))

\* the sort key of a row: pd.to_datetime(Date, format='%m/%d/%Y')
date_obj(rec) == Ordinal(strptime(rec.Date))

\* whether pd.to_datetime raises on the Date column.  It raises for a text
\* that strptime refuses.  A day outside 1677-09-22 .. 2262-04-11 does not
\* fit a nanosecond timestamp: a pandas that keeps nanoseconds raises on it,
\* one that chooses the unit by the data does not.
to_datetime_raises(df) ==
    IF \E i \in 1..Len(df) : ~ strptimeOk(df[i].Date) THEN { TRUE }
    ELSE IF \E i \in 1..Len(df) :
                \/ date_obj(df[i]) < Ordinal(<< 1677, 9, 22 >>)
                \/ date_obj(df[i]) > Ordinal(<< 2262, 4, 11 >>)
    THEN { TRUE, FALSE }
    ELSE { FALSE }

\* the order of two Date keys as texts 'MM/DD/YYYY'
TextBefore(a, b) ==
    \/ a[1] < b[1]
    \/ a[1] = b[1] /\ a[2] < b[2]
    \/ a[1] = b[1] /\ a[2] = b[2] /\ a[3] < b[3]

\* variant: the frame is sorted on the Date text, not on date_obj
RECURSIVE InsertSortedByText(_, _)
InsertSortedByText(rec, sorted) ==
    IF sorted = << >> THEN << rec >>
    ELSE IF TextBefore(rec.Date, Head(sorted).Date) THEN << rec >> \o sorted
    ELSE << Head(sorted) >> \o InsertSortedByText(rec, Tail(sorted))

\* df.sort_values('date_obj', ascending=True): insertion into sorted order
RECURSIVE InsertSorted(_, _)
InsertSorted(rec, sorted) ==
    IF sorted = << >> THEN << rec >>
    ELSE IF date_obj(rec) < date_obj(Head(sorted)) THEN << rec >> \o sorted
    ELSE << Head(sorted) >> \o InsertSorted(rec, Tail(sorted))

RECURSIVE sort_values(_)
sort_values(df) ==
    IF df = << >> THEN << >>
    ELSE InsertSorted(df[Len(df)], sort_values(SubSeq(df, 1, Len(df) - 1)))

\* the rows save_csv hands to to_csv
df_unique(records) == sort_values(drop_duplicates(records, << >>))

(***************************************************************************)
(* State                                                                   *)
(***************************************************************************)
VARIABLES
    pc,            \* position of the run: "run", "loop", "rows", "returned",
                   \* "alt", "decide", "done", and "raised" when an
                   \* exception has ended it
    years,         \* run(years)
    now_tod,       \* time of day of datetime.now()
    site,          \* which primary source answers
    page,          \* page
    target_date,   \* target_date
    all_records,   \* all_records
    nrows,         \* len(rows)
    has_next,      \* bool(next_links) of the page in hand
    row_index,     \* number of rows of the page the row loop has consumed
    page_records,  \* page_records
    seen_dates,    \* seen_dates
    outcome,       \* why the page loop ended
    reached,       \* the record_date logged by "Reached target date"
    fetch_log,     \* page numbers requested with session.get, in order
    page_log,      \* page_records of every page that was folded, in order
    first_arrival, \* for each date, the first row in arrival order that
                   \* parses to a record on or after the cutoff
    price_rejected, \* dates of the rows of the page in hand that were read,
                   \* not seen, not before the cutoff, and dropped for
                   \* their price
    sleeps,        \* number of time.sleep(1.5) calls
    data,          \* data of run
    alt_called,    \* try_alternative_source was entered
    alt_index,     \* position of the for loop over alternative_urls
    alt_log,       \* sources requested, in order, with what each gave
    printed,       \* notices printed by run and save_csv
    save_called,   \* save_csv was entered
    write,         \* how to_csv ended, "none" before it is called
    file           \* rows of the output file, << >> with exists FALSE if none

vars == << pc, years, now_tod, site, page, target_date, all_records, nrows,
           has_next, row_index, page_records, seen_dates, outcome, reached,
           fetch_log, page_log, first_arrival, price_rejected, sleeps, data,
           alt_called, alt_index, alt_log,
           printed, save_called, write, file >>

scrape_vars == << page, target_date, all_records, nrows, has_next, row_index,
                  page_records, seen_dates, outcome, reached, fetch_log,
                  page_log, first_arrival, price_rejected, sleeps >>

run_vars == << alt_called, alt_index, alt_log, printed, save_called, write, file >>

NoFile == [ exists |-> FALSE, rows |-> << >> ]

Init ==
    /\ pc = "run"
    /\ \E r \in RunMenu : years = r[1] /\ site = r[2]
    /\ now_tod \in TimesOfDay
    /\ page = 0
    /\ target_date = [ ord |-> 0, tod |-> 0 ]
    /\ all_records = << >>
    /\ nrows = 0
    /\ has_next = FALSE
    /\ row_index = 0
    /\ page_records = << >>
    /\ seen_dates = { }
    /\ outcome = "none"
    /\ reached = << >>
    /\ fetch_log = << >>
    /\ page_log = << >>
    /\ first_arrival = { }
    /\ price_rejected = { }
    /\ sleeps = 0
    /\ data = << >>
    /\ alt_called = FALSE
    /\ alt_index = 0
    /\ alt_log = << >>
    /\ printed = { }
    /\ save_called = FALSE
    /\ write = "none"
    /\ file = NoFile

(***************************************************************************)
(* scrape_nepse_daily_data                                                 *)
(***************************************************************************)
\* variant: the ceiling is tested one page late
LoopGuardOneMore(p) == p <= PageLimit + 1

\* while page <= 30
LoopGuard(p) == p <= PageLimit

\* variant: a failed fetch returns nothing
FailedResultEmpty(records) == << >>

\* except Exception: break, then return all_records
FailedResult(records) == records

\* variant: the boundary return forgets the page in hand
BoundaryResultWithoutPage(records, of_page) == records

\* all_records.extend(page_records); return all_records
BoundaryResult(records, of_page) == records \o of_page

\* return all_records: the value lands in data of run
Return(why, records) ==
    /\ pc' = "returned"
    /\ outcome' = why
    /\ data' = records

\* run calls scrape_nepse_daily_data: the locals before the while loop
StartScrape ==
    /\ pc = "run"
    /\ all_records' = << >>
    /\ page' = 1
    /\ IF TargetDateOk(years)
       THEN /\ target_date' = TargetDate(now_tod, years)
            /\ pc' = "loop"
       ELSE \* OverflowError, before the try of the page loop: it leaves
            \* scrape_nepse_daily_data and run
            /\ pc' = "raised"
            /\ UNCHANGED target_date
    /\ UNCHANGED << years, now_tod, site, nrows, has_next, row_index,
                    page_records, seen_dates, outcome, reached, fetch_log,
                    page_log, first_arrival, price_rejected, sleeps, data >>
    /\ UNCHANGED run_vars

\* while page <= 30 is false: fall out of the loop and return
PageLimitReached ==
    /\ pc = "loop"
    /\ ~ LoopGuard(page)
    /\ Return("page_limit", all_records)
    /\ UNCHANGED << years, now_tod, site, page, target_date, all_records, nrows,
                    has_next, row_index, page_records, seen_dates, reached,
                    fetch_log, page_log, first_arrival, price_rejected,
                    sleeps >>
    /\ UNCHANGED run_vars

\* session.get or raise_for_status raises: except Exception, break, return
FetchFailed ==
    /\ pc = "loop"
    /\ LoopGuard(page)
    /\ fetch_log' = Append(fetch_log, page)
    /\ Return("failed", FailedResult(all_records))
    /\ UNCHANGED << years, now_tod, site, page, target_date, all_records, nrows,
                    has_next, row_index, page_records, seen_dates, reached,
                    page_log, first_arrival, price_rejected, sleeps >>
    /\ UNCHANGED run_vars

\* the page is fetched and parsed and the selector cascade has run
FetchPage(soup) ==
    /\ pc = "loop"
    /\ LoopGuard(page)
    /\ fetch_log' = Append(fetch_log, page)
    /\ nrows' = SelectRows(soup)
    /\ has_next' = soup.next
    /\ row_index' = 0
    /\ IF SelectRows(soup) = 0
       THEN \* if not rows: break
            /\ Return("no_rows", all_records)
            /\ UNCHANGED << page_records, seen_dates >>
       ELSE /\ pc' = "rows"
            /\ page_records' = << >>
            /\ seen_dates' = { }
            /\ UNCHANGED << outcome, data >>
    /\ UNCHANGED << years, now_tod, site, page, target_date, all_records,
                    reached, page_log, first_arrival, sleeps >>
    /\ price_rejected' = { }
    /\ UNCHANGED run_vars

\* variant: the date is added to seen_dates before the price is parsed
SeenAfterDateRead(seen, read, verdict) ==
    IF verdict \in { "accept", "bad_price" }
    THEN seen \cup { read.formatted_date }
    ELSE seen

\* seen_dates after a row that did not stop the run: seen_dates.add is
\* reached by an accepted row only
SeenAfter(seen, read, verdict) ==
    IF verdict = "accept"
    THEN seen \cup { read.formatted_date }
    ELSE seen

\* the row got past the seen test and the boundary test and gave no record:
\* its price text is not a numeral, float() refused it, or the volume
\* estimate refused the float
PriceRejected(verdict) ==
    verdict \in { "bad_price", "float_error", "volume_error" }

\* the dates dropped for their price, after a row that did not stop the run
RejectedAfter(rejected, read, verdict) ==
    IF PriceRejected(verdict)
    THEN rejected \cup { read.formatted_date }
    ELSE rejected

\* one pass of for row in rows
ProcessRow(row) ==
    /\ pc = "rows"
    /\ row_index < nrows
    /\ row_index' = row_index + 1
    /\ \E read \in { ParseOf(row) } :
       LET verdict == VerdictOf(read, seen_dates, target_date)
           \* the verdict had no date been seen: only the seen test reads
           \* seen_dates
           unseen  == IF verdict = "seen"
                      THEN VerdictOf(read, { }, target_date)
                      ELSE verdict
       IN  /\ IF verdict = "stop"
              THEN /\ all_records' = BoundaryResult(all_records, page_records)
                   /\ reached' = read.record_date
                   /\ Return("boundary", BoundaryResult(all_records, page_records))
                   /\ price_rejected' = { }
                   /\ UNCHANGED << page_records, seen_dates >>
              ELSE /\ seen_dates' = SeenAfter(seen_dates, read, verdict)
                   /\ page_records' = IF verdict = "accept"
                                      THEN Append(page_records, read.record)
                                      ELSE page_records
                   /\ price_rejected' = RejectedAfter(price_rejected, read, verdict)
                   /\ UNCHANGED << pc, all_records, reached, outcome, data >>
           /\ first_arrival' =
                  IF /\ unseen = "accept"
                     /\ \A rec \in first_arrival : rec.Date # read.formatted_date
                  THEN first_arrival \cup { read.record }
                  ELSE first_arrival
    /\ UNCHANGED << years, now_tod, site, page, target_date, nrows, has_next,
                    fetch_log, page_log, sleeps >>
    /\ UNCHANGED run_vars

\* variant: a page without a record is folded like any other
NoPageRecordsNever(records) == FALSE

\* if not page_records
NoPageRecords(records) == records = << >>

\* variant: the loop goes on without a next link
NoNextLinksNever(next) == FALSE

\* if not next_links
NoNextLinks(next) == ~ next

\* variant: the page after the next one is requested
NextPageSkips(p) == p + 2

\* page += 1
NextPage(p) == p + 1

\* after the row loop: fold the page, look for a next link, sleep
EndPage ==
    /\ pc = "rows"
    /\ row_index = nrows
    /\ IF NoPageRecords(page_records)
       THEN /\ Return("no_records", all_records)
            /\ UNCHANGED << all_records, page_log, page, sleeps >>
       ELSE /\ all_records' = all_records \o page_records
            /\ page_log' = Append(page_log, page_records)
            /\ IF NoNextLinks(has_next)
               THEN /\ Return("no_next", all_records \o page_records)
                    /\ UNCHANGED << page, sleeps >>
               ELSE /\ page' = NextPage(page)
                    /\ sleeps' = sleeps + 1
                    /\ pc' = "loop"
                    /\ UNCHANGED << outcome, data >>
    /\ UNCHANGED << years, now_tod, site, target_date, nrows, has_next,
                    row_index, page_records, seen_dates, reached, fetch_log,
                    first_arrival >>
    /\ price_rejected' = { }
    /\ UNCHANGED run_vars

(***************************************************************************)
(* run, try_alternative_source, save_csv                                   *)
(***************************************************************************)
\* variant: a single record counts as none
not_more_than_one(records) == Len(records) < 2

\* the truth test of a list: not data
not(records) == records = << >>

\* variant: a source without a record ends the for loop
NextSourceAbort(i) == Len(alternative_urls) + 1

\* continue: the for loop goes on to the next url
NextSource(i) == i + 1

\* if not data: print the warning and enter try_alternative_source
AfterScrape ==
    /\ pc = "returned"
    /\ IF not(data)
       THEN /\ pc' = "alt"
            /\ printed' = printed \cup { "main_failed" }
            /\ alt_called' = TRUE
            /\ alt_index' = 1
       ELSE /\ pc' = "decide"
            /\ UNCHANGED << printed, alt_called, alt_index >>
    /\ UNCHANGED << years, now_tod, site, data >>
    /\ UNCHANGED scrape_vars
    /\ UNCHANGED << alt_log, save_called, write, file >>

\* the record try_alternative_source builds from an answer when the clock
\* reads the day today; << >> if none, also when get_daily_volume_estimate
\* raises and the for loop goes on
AltParse(answer, today) ==
    IF /\ ~ answer.failed
       /\ answer.status = 200
       /\ answer.nepse /\ answer.index
       /\ answer.numbers # << >>
    THEN LET current_price == FloatOf(answer.numbers[1])
             current_date  == strftime(today)
         IN  IF VolumeRaises(current_price) THEN << >>
             ELSE << [ Date   |-> current_date,
                       Close  |-> current_price,
                       Volume |-> get_daily_volume_estimate(current_price,
                                                            current_date) ] >>
    ELSE << >>

\* the answers of the alternate sources and the days of the clock, each
\* pair with the record built from it
AltParses ==
    { << answer, today, AltParse(answer, today) >> :
          answer \in AltMenu, today \in ClockDays }

\* the record built from an answer on a day; for an answer and a day of the
\* menus it is looked up
AltRecords(answer, today) ==
    IF answer \in AltMenu /\ today \in ClockDays
    THEN (CHOOSE p \in AltParses : p[1] = answer /\ p[2] = today)[3]
    ELSE AltParse(answer, today)

\* one pass of for url in alternative_urls, the clock reading the day today
\* when the record is built
TryAlternative(answer, today) ==
    /\ pc = "alt"
    /\ alt_index <= Len(alternative_urls)
    /\ \E got \in { AltRecords(answer, today) } :
          /\ alt_log' = Append(alt_log, [ url |-> alternative_urls[alt_index],
                                         got |-> Len(got) ])
          /\ IF got # << >>
             THEN /\ data' = got
                  /\ pc' = "decide"
                  /\ UNCHANGED alt_index
             ELSE /\ alt_index' = NextSource(alt_index)
                  /\ UNCHANGED << pc, data >>
    /\ UNCHANGED << years, now_tod, site >>
    /\ UNCHANGED scrape_vars
    /\ UNCHANGED << alt_called, printed, save_called, write, file >>

\* the for loop is over: return []
AlternativesExhausted ==
    /\ pc = "alt"
    /\ alt_index > Len(alternative_urls)
    /\ data' = << >>
    /\ pc' = "decide"
    /\ UNCHANGED << years, now_tod, site >>
    /\ UNCHANGED scrape_vars
    /\ UNCHANGED run_vars

\* the proper prefixes of the rows that an interrupted write can leave
Prefixes(rows) == { SubSeq(rows, 1, k) : k \in 0..(Len(rows) - 1) }

\* variant: save_csv is called whatever data holds
ShouldSaveAlways(records) == TRUE

\* if data: in run
ShouldSave(records) == ~ not(records)

\* if data: self.save_csv(data, filename)
SaveCsv(how) ==
    /\ pc = "decide"
    /\ ShouldSave(data)
    /\ pc' = "done"
    /\ save_called' = TRUE
    /\ IF not(data)
       THEN \* "No data to save": return
            UNCHANGED << write, file, printed >>
       ELSE \E raises \in to_datetime_raises(data) :
            IF raises
            THEN \* "Error saving CSV": to_csv is not reached
                 UNCHANGED << write, file, printed >>
            ELSE /\ write' = how
                 /\ IF how = "ok"
                    THEN /\ file' = [ exists |-> TRUE, rows |-> df_unique(data) ]
                         /\ printed' = printed \cup { "saved" }
                    ELSE IF how = "open_error"
                    THEN UNCHANGED << file, printed >>
                    ELSE /\ file' \in { [ exists |-> TRUE, rows |-> r ] :
                                          r \in Prefixes(df_unique(data)) }
                         /\ UNCHANGED printed
    /\ UNCHANGED << years, now_tod, site, data >>
    /\ UNCHANGED scrape_vars
    /\ UNCHANGED << alt_called, alt_index, alt_log >>

\* else: print the failure notice
ReportFailure ==
    /\ pc = "decide"
    /\ ~ ShouldSave(data)
    /\ pc' = "done"
    /\ printed' = printed \cup { "failed" }
    /\ UNCHANGED << years, now_tod, site, data >>
    /\ UNCHANGED scrape_vars
    /\ UNCHANGED << alt_called, alt_index, alt_log, save_called, write, file >>

Next ==
    \/ StartScrape
    \/ PageLimitReached
    \/ FetchFailed
    \/ \E soup \in ServedSoups(site, page) : FetchPage(soup)
    \/ \E row \in ServedRows(site) : ProcessRow(row)
    \/ EndPage
    \/ AfterScrape
    \/ \E answer \in AltMenu, today \in ClockDays : TryAlternative(answer, today)
    \/ AlternativesExhausted
    \/ \E how \in WriteMenu : SaveCsv(how)
    \/ ReportFailure

Spec == Init /\ [][Next]_vars

\* the run is sequential and every step it can take it does take
FairSpec == Spec /\ WF_vars(Next)

(***************************************************************************)
(* Properties                                                              *)
(***************************************************************************)
\* the records gathered so far in the page loop
Accumulated == all_records \o (IF pc = "rows" THEN page_records ELSE << >>)

\* chronological order of two Date keys <<month, day, year>>
KeyBefore(a, b) ==
    \/ a[3] < b[3]
    \/ a[3] = b[3] /\ a[1] < b[1]
    \/ a[3] = b[3] /\ a[1] = b[1] /\ a[2] < b[2]

UniqueDates(records) ==
    \A i, j \in 1..Len(records) : i # j => records[i].Date # records[j].Date

RECURSIVE Flatten(_)
Flatten(lists) == IF lists = << >> THEN << >> ELSE Head(lists) \o Flatten(Tail(lists))

UpTo(n) == [ i \in 1..n |-> i ]

\* the first record of a sequence that carries a date
FirstOf(records, d) ==
    records[CHOOSE i \in 1..Len(records) :
               /\ records[i].Date = d
               /\ \A j \in 1..(i - 1) : records[j].Date # d]

\* the day of the cutoff: the day of the run minus 365 days per year
CutoffDay == Ordinal(NowDate) - 365 * years

\* C1: the rows save_csv writes are strictly ascending by Date, so no Date
\* appears twice
C1_WrittenRowsAscending ==
    file.exists =>
        \A i, j \in 1..Len(file.rows) :
            i < j => KeyBefore(file.rows[i].Date, file.rows[j].Date)

\* C1 case: a full write of at least two rows whose input held a duplicate
\* date and did not start with the oldest date
C1_Witness ==
    /\ write = "ok"
    /\ Len(file.rows) >= 2
    /\ Len(data) > Len(file.rows)
    /\ data[1].Date # file.rows[1].Date

\* C2: at every point of scrape_nepse_daily_data, and in what it returns, no
\* two accumulated records have the same Date
C2_NoDateTwiceInRun ==
    /\ UniqueDates(Accumulated)
    /\ pc = "returned" => UniqueDates(data)

\* C3: the record kept for a date is the first record with that date in
\* arrival order, in the run and in the written file, and every later record
\* with that date is dropped
C3_FirstOccurrenceKept ==
    /\ pc = "rows" => UniqueDates(page_records)
    /\ { Accumulated[i].Date : i \in 1..Len(Accumulated) }
         = { rec.Date : rec \in first_arrival }
    /\ \A rec \in first_arrival : FirstOf(Accumulated, rec.Date) = rec
    /\ (write = "ok" /\ ~ alt_called) =>
          /\ { file.rows[i] : i \in 1..Len(file.rows) } = first_arrival
          /\ Len(file.rows) = Cardinality(first_arrival)

\* C3 case: a file was written in full from a harvest in which a later record
\* with an already met date and another price was dropped
C3_Witness ==
    /\ write = "ok"
    /\ ~ alt_called
    /\ \E i \in 1..Len(all_records) : all_records[i] \notin first_arrival

\* C4: a row stops the run only when its date is before the day of the cutoff
\* (a row dated on the cutoff day is kept), and no record dated before the
\* cutoff day is kept
C4_StopIffBeforeCutoffDay ==
    /\ outcome = "boundary" => Ordinal(reached) < CutoffDay
    /\ \A i \in 1..Len(Accumulated) :
          Ordinal(strptime(Accumulated[i].Date)) >= CutoffDay

\* C5: a boundary stop on page p returns at once the records of pages
\* 1..p-1 followed by the records of page p accepted before the boundary row,
\* and page p is the last page fetched
C5_BoundaryReturn ==
    outcome = "boundary" =>
        /\ pc \notin { "loop", "rows" }
        /\ all_records = Flatten(page_log) \o page_records
        /\ pc = "returned" => data = Flatten(page_log) \o page_records
        /\ Len(page_log) = page - 1
        /\ fetch_log = UpTo(page)
        /\ Len(page_records) < row_index

\* C5 case: the boundary row met on the second page, after a record of that
\* page and with rows of the page still unread
C5_Witness ==
    /\ outcome = "boundary"
    /\ page = 2
    /\ page_records # << >>
    /\ row_index < nrows

\* C6: a run never requests more than 30 pages, and after the 30th request
\* the loop cannot request another
C6_AtMostThirtyFetches ==
    /\ Len(fetch_log) <= 30
    /\ (pc = "loop" /\ Len(fetch_log) = 30) => ~ LoopGuard(page)

\* C6 case: every one of 30 pages gave a record and showed a next link, and
\* the ceiling ended the loop
C6_Witness ==
    /\ outcome = "page_limit"
    /\ Len(fetch_log) = 30
    /\ Len(page_log) = 30

\* C7: when the fetch of page k fails the loop ends, the run goes on, and the
\* records returned are exactly those of pages 1..k-1
C7_FailedFetchReturn ==
    outcome = "failed" =>
        /\ pc \in { "returned", "alt", "decide", "done" }
        /\ fetch_log = UpTo(page)
        /\ Len(page_log) = page - 1
        /\ all_records = Flatten(page_log)
        /\ pc = "returned" => data = Flatten(page_log)
        /\ page = 1 => all_records = << >>

\* C7 case: the second page failed after a first page that gave records
\* and the run went on to its end
C7_Witness ==
    /\ outcome = "failed"
    /\ page = 2
    /\ all_records # << >>
    /\ pc = "done"

\* C8: try_alternative_source is entered exactly when the primary harvest
\* returned no record, and never before the primary harvest has returned
C8_FallbackIffPrimaryEmpty ==
    /\ pc \in { "run", "raised", "loop", "rows", "returned" } =>
          ~ alt_called /\ alt_log = << >>
    /\ pc \in { "alt", "decide", "done" } => (alt_called <=> all_records = << >>)
    /\ alt_log # << >> => alt_called

\* C8 case: a primary harvest that ended empty at the boundary, followed by a
\* request to an alternate source
C8_Witness ==
    /\ outcome = "boundary"
    /\ all_records = << >>
    /\ alt_called
    /\ alt_log # << >>

\* C9: the alternate sources are requested in list order, a source is
\* requested only when every earlier one gave no record, the probe returns at
\* most one record, and it returns none only after every source was requested
C9_ProbeOrder ==
    /\ Len(alt_log) <= Len(alternative_urls)
    /\ \A i \in 1..Len(alt_log) :
          /\ alt_log[i].url = alternative_urls[i]
          /\ i < Len(alt_log) => alt_log[i].got = 0
          /\ alt_log[i].got <= 1
    /\ (alt_called /\ pc \in { "decide", "done" }) =>
          /\ Len(data) <= 1
          /\ data = << >> => Len(alt_log) = Len(alternative_urls)
          /\ data # << >> => alt_log[Len(alt_log)].got = 1

\* C9 case: the first source gave nothing and the second gave the record
C9_Witness ==
    /\ pc = "done"
    /\ Len(alt_log) = 2
    /\ alt_log[1].got = 0
    /\ alt_log[2].got = 1
    /\ Len(data) = 1

\* C10 as stated: the run ends with the dataset file written if and only if
\* some source produced a record
C10_FileIffRecord ==
    pc = "done" =>
        /\ (file.exists /\ file.rows = df_unique(data)) <=> data # << >>
        /\ data = << >> => "failed" \in printed
        /\ data # << >> => save_called

\* C10 amended: save_csv is called if and only if some source produced a
\* record and is then the last step; with no record the failure notice is
\* printed and no file is written; with a record the file holds the whole
\* dataset when to_csv ends without error, and there is no file when
\* save_csv fails before to_csv has opened it
C10_SaveIffRecord ==
    /\ save_called => pc = "done"
    /\ file.exists => save_called /\ data # << >>
    /\ pc = "done" =>
          /\ save_called <=> data # << >>
          /\ data = << >> => "failed" \in printed /\ ~ file.exists
          /\ data # << >> => "failed" \notin printed
          /\ write = "ok" => file = [ exists |-> TRUE, rows |-> df_unique(data) ]
          /\ write \in { "none", "open_error" } => ~ file.exists

\* C10 case: a record existed, save_csv was called and to_csv failed before
\* the file was created
C10_Witness ==
    /\ pc = "done"
    /\ save_called
    /\ data # << >>
    /\ write = "open_error"

\* C11: every record of the persisted dataset, from the primary harvest or
\* from the fallback probe, has Close > 0, and no record that a run gathers
\* or returns has a Close of zero
C11_ClosePositive ==
    /\ \A i \in 1..Len(file.rows) : file.rows[i].Close # Zero
    /\ \A i \in 1..Len(data) : data[i].Close # Zero
    /\ \A i \in 1..Len(Accumulated) : Accumulated[i].Close # Zero

\* a row that cannot give a record whatever the cutoff and the dates seen:
\* fewer than 3 cells, an empty text, or a date or price that does not parse
Unusable(row) == RowVerdict(row, { }, [ ord |-> 0, tod |-> 0 ]) # "accept"

\* C12: a row with fewer than 3 cells, an empty date or price text, or a date
\* or price that fails to parse is skipped: it adds no record, it does not
\* stop the run, and the row loop goes on to the next row
C12_UnusableRowSkipped ==
    [][ \A row \in ServedRows(site) :
          (ProcessRow(row) /\ Unusable(row)) =>
              /\ pc' = "rows"
              /\ outcome' = outcome
              /\ row_index' = row_index + 1
              /\ page_records' = page_records
              /\ all_records' = all_records ]_vars

\* C13: a page below the ceiling that was processed to its end and gave a
\* record is followed by the request of page + 1 exactly when it shows a next
\* link, one sleep lies between the end of each such page and the next
\* request, and without a next link the run returns the records gathered
C13_NextFetchIffNextLink ==
    /\ (pc = "loop" /\ page > 1) =>
          /\ has_next
          /\ page_log # << >> /\ page_log[Len(page_log)] # << >>
          /\ Len(page_log) = page - 1
          /\ fetch_log = UpTo(page - 1)
          /\ sleeps = page - 1
    /\ sleeps <= Len(fetch_log)
    /\ Len(fetch_log) <= sleeps + 1
    /\ outcome = "no_next" =>
          /\ ~ has_next
          /\ pc \notin { "loop", "rows" }
          /\ fetch_log = UpTo(page)
          /\ Len(page_log) = page
          /\ all_records = Flatten(page_log)
          /\ pc = "returned" => data = all_records
    /\ (pc \notin { "run", "raised", "loop", "rows" } /\ Len(page_log) = Len(fetch_log)) =>
          \/ outcome = "no_next" /\ ~ has_next
          \/ outcome = "page_limit" /\ Len(fetch_log) = 30

\* C13 case: the second page was requested after a first page with a record
\* and a next link, it gave a record and no next link, and the run returned
\* the records of both pages
C13_Witness ==
    /\ pc = "returned"
    /\ outcome = "no_next"
    /\ fetch_log = << 1, 2 >>
    /\ sleeps = 1
    /\ Len(data) = 2

\* C14: the pages requested in one primary run are 1, 2, ..., k in this
\* order, each once; a page is requested only when every row of the page
\* before it has been processed, and a failed request is the last request
C14_SequentialFetches ==
    /\ \A i \in 1..Len(fetch_log) : fetch_log[i] = i
    /\ pc = "loop" =>
          /\ Len(fetch_log) = page - 1
          /\ page > 1 => row_index = nrows
    /\ pc = "rows" => Len(fetch_log) = page /\ row_index <= nrows
    /\ outcome = "failed" =>
          /\ pc \notin { "loop", "rows" }
          /\ Len(fetch_log) = page

\* C14 case: page 2 was requested after the rows of page 1 and failed, and
\* the run went on to its end without another request
C14_Witness ==
    /\ pc = "done"
    /\ outcome = "failed"
    /\ fetch_log = << 1, 2 >>
    /\ row_index = nrows
    /\ nrows > 1

\* C15: the row loop runs over the rows of a page only when a selector of the
\* cascade gave more than 5 rows; a page where none does ends the run without
\* adding a record
C15_RowsOnlyAboveMinimum ==
    /\ pc = "rows" => nrows > 5
    /\ (pc = "returned" /\ Len(fetch_log) = page /\ outcome # "failed"
          /\ nrows <= 5) =>
          /\ outcome = "no_rows"
          /\ data = Flatten(page_log)

\* C16: a fetched page that gives no usable record ends the run, next link or
\* not: it is the last page requested, only pages that gave a record are ever
\* followed by another request, and the records of the earlier pages are
\* returned as they were
C16_EmptyPageEndsRun ==
    /\ outcome \in { "no_records", "no_rows" } =>
          /\ pc \notin { "loop", "rows" }
          /\ Len(fetch_log) = page
          /\ Len(page_log) = page - 1
          /\ all_records = Flatten(page_log)
          /\ pc = "returned" => data = all_records
    /\ \A i \in 1..Len(page_log) : page_log[i] # << >>
    /\ (pc = "loop" /\ page > 1) => page_records # << >>

\* C16 case: page 2 showed a next link and gave no record, and the run
\* returned the records of page 1
C16_Witness ==
    /\ pc = "returned"
    /\ outcome = "no_records"
    /\ has_next
    /\ fetch_log = << 1, 2 >>
    /\ data # << >>
    /\ data = page_log[1]

\* C17: a run that has ended has printed the success summary or the failure
\* notice, whatever happened, a failed write of the dataset included
C17_SummaryOrFailureNotice ==
    pc \in { "done", "raised" } => ("saved" \in printed \/ "failed" \in printed)

\* C18: after a write that failed the destination holds the whole dataset of
\* this run or what it held before save_csv, never a part of the new rows
C18_NoPartialFile ==
    write \in { "open_error", "write_error" } =>
        \/ file = NoFile
        \/ file = [ exists |-> TRUE, rows |-> df_unique(data) ]

\* a record's date, taken at midnight, is not earlier than the instant
\* now() - 365 days per year
NotEarlierThanCutoff(rec) ==
    \/ date_obj(rec) > CutoffDay
    \/ date_obj(rec) = CutoffDay /\ now_tod = 0

\* C19: every record scrape_nepse_daily_data gathers or returns has a date
\* not earlier than the cutoff fixed when the run began, whatever pages and
\* rows came and however the page loop ended
C19_ReturnedNotBeforeCutoff ==
    /\ \A i \in 1..Len(Accumulated) : NotEarlierThanCutoff(Accumulated[i])
    /\ (pc = "returned" \/ ~ alt_called) =>
          \A i \in 1..Len(data) : NotEarlierThanCutoff(data[i])

\* C19 case: a row dated on the day of the cutoff was kept by a run begun at
\* midnight, and a later row before the cutoff ended the run
C19_Witness ==
    /\ pc = "returned"
    /\ outcome = "boundary"
    /\ \E i \in 1..Len(data) : date_obj(data[i]) = CutoffDay

\* the Date keys of a sequence of records
DatesOf(records) == { records[i].Date : i \in 1..Len(records) }

\* C20: a date is in seen_dates only when a row with that date was accepted
\* as a record of the page: in the row loop seen_dates is the set of dates of
\* page_records, so a row dropped for its price has left it as it was and
\* its date is seen only once a later row with that date was accepted
C20_SeenOnlyWhenAccepted ==
    pc = "rows" =>
        /\ seen_dates = DatesOf(page_records)
        /\ Cardinality(seen_dates) = Len(page_records)
        /\ \A d \in price_rejected :
              d \in seen_dates => d \in DatesOf(page_records)

\* C20 case: a row of the page was dropped for its price and a later row of
\* the same page with the same date was accepted
C20_Witness ==
    /\ pc = "rows"
    /\ \E i \in 1..Len(page_records) :
          /\ page_records[i].Date \in price_rejected
          /\ page_records[i].Date \in seen_dates

====
